---------------------------- MODULE Spec2Model ----------------------------
(***************************************************************************)
(* A model of diffpy's feature functions (src/diffpy/features.py) and of   *)
(* the padding convention of its reader (src/diffpy/utils.py).             *)
(*                                                                         *)
(* Every function of the library is pure; the state of a call is its       *)
(* arguments, its local arrays, its position (pc) and its outcome: the     *)
(* value returned (ret) or the exception that left the call (err).         *)
(*                                                                         *)
(* Numbers.  A float is modelled by an exact rational <<n, d>> in lowest   *)
(* terms with d >= 0; <<0,0>> is numpy's nan, <<1,0>> is inf and <<-1,0>>  *)
(* is -inf, so that x/0 and 0/0 behave as numpy's float division does (a   *)
(* RuntimeWarning, never an exception).  Rounding is not modelled.  Square *)
(* roots are kept symbolic: a sum of square roots is the bag of its        *)
(* radicands.  Logarithms and exponentials are kept as terms.              *)
(***************************************************************************)
EXTENDS Integers, Sequences, FiniteSets, Bags, TLC

VARIABLES
    fn,        \* the function of features.py that was called
    pc,        \* "call" | "loop" | "done" (returned) | "raised" (exception)
    err,       \* the exception that left the call, "" when none
    ret,       \* the value returned (<<>> until the call returns)
    \* ---- diffusion-model module: anomModels, anomModelsN, anomModelN
    steps,     \* local `steps`
    N,         \* number of trajectory columns (local `N` of the batch variants)
    skips,     \* argument `skips`
    i,         \* loop variable `i`
    frame,     \* loop variable / argument `frame`
    Ds,        \* local array `Ds`
    alphas,    \* local array `alphas`
    fits,      \* the calls made to curve_fit so far: <<column, window length>>
    \* ---- coordinate and MSD arguments
    x, y, M,   \* single-trajectory arguments (vectors)
    xs, ys, Ms,\* batch arguments (matrices, a sequence of rows)
    \* ---- locals of minBoundRect
    hull_points, angles, best,
    \* ---- local of msdRatio and msdRatios
    Mratio,
    \* ---- the output arrays a batch driver fills (ars, elongs / a1, a2, a3, Ks)
    out

anomVars == <<steps, N, skips, i, frame, Ds, alphas, fits>>
argVars  == <<x, y, M, xs, ys, Ms>>
localVars == <<hull_points, angles, best, Mratio, out>>
vars     == <<fn, pc, err, ret, anomVars, argVars, localVars>>

(***************************************************************************)
(* Bounds of the model.                                                    *)
(***************************************************************************)
MaxK      == 12   \* longest MSD profile (rows of the MSD argument)
MaxSkips  == 2    \* largest `skips`
MaxN      == 2    \* most trajectory columns in a batch
MaxFrames == 3    \* most frames (rows) of a coordinate matrix
MaxLags   == 3    \* most lags (rows) of an MSD matrix in msdRatio(s)
MaxPts    == 4    \* most points handed to minBoundRect
GridMax   == 2    \* largest coordinate of a point handed to minBoundRect

(***************************************************************************)
(* Program constants.                                                      *)
(***************************************************************************)
MinWindow == 10   \* range(10, ...) of the sliding-window loops

Unused == <<>>

(***************************************************************************)
(* Rational arithmetic with numpy's nan and inf.                           *)
(***************************************************************************)
Abs(n) == IF n < 0 THEN -n ELSE n

Sign(n) == IF n < 0 THEN -1 ELSE IF n = 0 THEN 0 ELSE 1

RECURSIVE GCD(_, _)
GCD(a, b) == IF b = 0 THEN a ELSE GCD(b, a % b)

Norm(n, d) ==
    IF d = 0 THEN <<Sign(n), 0>>
    ELSE LET g == GCD(Abs(n), Abs(d))
             s == Sign(d)
         IN  <<(s * n) \div g, (s * d) \div g>>

Q(n) == <<n, 1>>

NaN == <<0, 0>>

IsNaN(a) == a = NaN

IsFinite(a) == a[2] # 0

QAdd(a, b) ==
    IF a[2] = 1 /\ b[2] = 1 THEN <<a[1] + b[1], 1>>
    ELSE IF IsNaN(a) \/ IsNaN(b) THEN NaN
    ELSE IF a[2] = 0 /\ b[2] = 0 THEN (IF a = b THEN a ELSE NaN)
    ELSE Norm(a[1] * b[2] + b[1] * a[2], a[2] * b[2])

QNeg(a) == <<-a[1], a[2]>>

QSub(a, b) == QAdd(a, QNeg(b))

QMul(a, b) ==
    IF a[2] = 1 /\ b[2] = 1 THEN <<a[1] * b[1], 1>>
    ELSE Norm(a[1] * b[1], a[2] * b[2])

QSq(a) == QMul(a, a)

\* numpy's true division of floats: x/0 is +-inf, 0/0 is nan, nothing raises
QDiv(a, b) ==
    IF IsNaN(a) \/ IsNaN(b) THEN NaN
    ELSE Norm(a[1] * b[2] * (IF b[1] < 0 THEN -1 ELSE 1), a[2] * Abs(b[1]))

QLe(a, b) ==
    IF a[2] = 0 /\ b[2] = 0 THEN a[1] <= b[1] ELSE a[1] * b[2] <= b[1] * a[2]

QLt(a, b) == QLe(a, b) /\ a # b


(***************************************************************************)
(* Diffusion-model module.                                                 *)
(*                                                                         *)
(* The MSD argument enters these functions only through its shape and      *)
(* through curve_fit (scipy), so it is represented by its shape, and the   *)
(* parameters curve_fit returns for the first w points of column c are the *)
(* terms FitD(c, w) and FitAlpha(c, w).  curve_fit either returns or       *)
(* raises (RuntimeError when the least-squares iteration does not          *)
(* converge).                                                              *)
(***************************************************************************)
Zero == Q(0)

FitD(c, w) == <<"D", c, w>>

FitAlpha(c, w) == <<"alpha", c, w>>

\* np.zeros(n): indices 0 .. n-1
Zeros(n) == [k \in 0 .. (n - 1) |-> Zero]

\* np.zeros((rows, cols)): indices <<r, c>>
Zeros2(rows, cols) == [rc \in (0 .. (rows - 1)) \X (0 .. (cols - 1)) |-> Zero]

\* the first value of range(10, stop, skips)
RangeStartOffByOne == MinWindow - 1

RangeStart == MinWindow

\* the stop of range(10, steps-1, skips) in anomModels
AnomModelsStop(st) == st - 1

\* the stop of range(10, steps, skips) in anomModelsN
AnomModelsNStop(st) == st

InitAnomModels ==
    /\ fn = "anomModels"
    /\ \E K \in 0 .. MaxK :
         /\ steps = K + 1
         /\ Ds = Zeros(K)
         /\ alphas = Zeros(K)
    /\ N = 1
    /\ skips \in 1 .. MaxSkips
    /\ i = RangeStart
    /\ frame = 0

InitAnomModelsN ==
    /\ fn = "anomModelsN"
    /\ steps \in 1 .. MaxK
    /\ N \in 1 .. MaxN
    /\ skips \in 1 .. MaxSkips
    /\ Ds = Zeros2(steps, N)
    /\ alphas = Zeros2(steps, N)
    /\ i = 0
    /\ frame = RangeStart

InitAnom ==
    /\ pc = "loop"
    /\ err = ""
    /\ ret = Unused
    /\ fits = {}
    /\ InitAnomModels \/ InitAnomModelsN
    /\ x = Unused /\ y = Unused /\ M = Unused
    /\ xs = Unused /\ ys = Unused /\ Ms = Unused
    /\ hull_points = Unused /\ angles = Unused /\ best = Unused /\ Mratio = Unused
    /\ out = Unused

\* one iteration of the loop of anomModels, curve_fit returning
AnomModelsFit ==
    /\ fn = "anomModels" /\ pc = "loop"
    /\ i < AnomModelsStop(steps)
    /\ fits' = fits \cup {<<0, i>>}
    /\ Ds' = [Ds EXCEPT ![i] = FitD(0, i)]
    /\ alphas' = [alphas EXCEPT ![i] = FitAlpha(0, i)]
    /\ i' = i + skips
    /\ UNCHANGED <<fn, pc, err, ret, steps, N, skips, frame, argVars, localVars>>

\* one iteration of the loop of anomModels, curve_fit raising
AnomModelsFitRaises ==
    /\ fn = "anomModels" /\ pc = "loop"
    /\ i < AnomModelsStop(steps)
    /\ fits' = fits \cup {<<0, i>>}
    /\ pc' = "raised"
    /\ err' = "RuntimeError"
    /\ UNCHANGED <<fn, ret, steps, N, skips, i, frame, Ds, alphas, argVars, localVars>>

AnomModelsReturn ==
    /\ fn = "anomModels" /\ pc = "loop"
    /\ ~(i < AnomModelsStop(steps))
    /\ ret' = <<Ds, alphas>>
    /\ pc' = "done"
    /\ UNCHANGED <<fn, err, anomVars, argVars, localVars>>

\* one iteration of the inner loop of anomModelsN, curve_fit returning
AnomModelsNFit ==
    /\ fn = "anomModelsN" /\ pc = "loop"
    /\ i < N
    /\ frame < AnomModelsNStop(steps)
    /\ fits' = fits \cup {<<i, frame>>}
    /\ Ds' = [Ds EXCEPT ![<<frame, i>>] = FitD(i, frame)]
    /\ alphas' = [alphas EXCEPT ![<<frame, i>>] = FitAlpha(i, frame)]
    /\ frame' = frame + skips
    /\ UNCHANGED <<fn, pc, err, ret, steps, N, skips, i, argVars, localVars>>

AnomModelsNFitRaises ==
    /\ fn = "anomModelsN" /\ pc = "loop"
    /\ i < N
    /\ frame < AnomModelsNStop(steps)
    /\ fits' = fits \cup {<<i, frame>>}
    /\ pc' = "raised"
    /\ err' = "RuntimeError"
    /\ UNCHANGED <<fn, ret, steps, N, skips, i, frame, Ds, alphas, argVars, localVars>>

\* the inner loop is exhausted: next column
AnomModelsNNextColumn ==
    /\ fn = "anomModelsN" /\ pc = "loop"
    /\ i < N
    /\ ~(frame < AnomModelsNStop(steps))
    /\ i' = i + 1
    /\ frame' = RangeStart
    /\ UNCHANGED <<fn, pc, err, ret, steps, N, skips, Ds, alphas, fits, argVars, localVars>>

AnomModelsNReturn ==
    /\ fn = "anomModelsN" /\ pc = "loop"
    /\ ~(i < N)
    /\ ret' = <<Ds, alphas>>
    /\ pc' = "done"
    /\ UNCHANGED <<fn, err, anomVars, argVars, localVars>>

NextAnom ==
    \/ AnomModelsFit
    \/ AnomModelsFitRaises
    \/ AnomModelsReturn
    \/ AnomModelsNFit
    \/ AnomModelsNFitRaises
    \/ AnomModelsNNextColumn
    \/ AnomModelsNReturn

SpecAnom == InitAnom /\ [][NextAnom]_vars

\* the length of the MSD profile handed to the call
ProfileLength == IF fn = "anomModels" THEN steps - 1 ELSE steps

\* the window lengths 10, 10+s, 10+2s, ... up to and including K
WindowLengths(K, s) == {w \in MinWindow .. K : (w - MinWindow) % s = 0}

(***************************************************************************)
(* C1: when anomModels or anomModelsN returns for a profile of length      *)
(* K >= 10, a fit over the first w points was made for every window length *)
(* w = 10, 10+skips, ... up to and including K (for every column), and its *)
(* D and alpha are entries of the returned arrays.                         *)
(***************************************************************************)
C1_EveryWindowUpToKFitted ==
    (pc = "done" /\ fn \in {"anomModels", "anomModelsN"} /\ ProfileLength >= MinWindow) =>
        \A c \in 0 .. (N - 1) : \A w \in WindowLengths(ProfileLength, skips) :
            /\ <<c, w>> \in fits
            /\ \E e \in DOMAIN ret[1] : ret[1][e] = FitD(c, w)
            /\ \E e \in DOMAIN ret[2] : ret[2][e] = FitAlpha(c, w)

(***************************************************************************)
(* C7: anomModels never fits below 10 points.  Whenever it returns, both   *)
(* vectors have length K = steps-1 and their entries for windows below 10  *)
(* are zero; for K < 10 no fit is made, nothing is raised and both vectors *)
(* are all zero.                                                           *)
(***************************************************************************)
C7_SubMinimumZeroFill ==
    /\ (fn = "anomModels" /\ steps - 1 < MinWindow) => (fits = {} /\ pc # "raised")
    /\ (fn = "anomModels" /\ pc = "done") =>
          /\ DOMAIN ret[1] = 0 .. (steps - 2)
          /\ DOMAIN ret[2] = 0 .. (steps - 2)
          /\ \A e \in DOMAIN ret[1] :
                (e < MinWindow \/ steps - 1 < MinWindow) =>
                    (ret[1][e] = Zero /\ ret[2][e] = Zero)

C7_Witness ==
    /\ fn = "anomModels" /\ pc = "done"
    /\ steps - 1 = MinWindow - 1
    /\ \A e \in DOMAIN ret[1] : ret[1][e] = Zero /\ ret[2][e] = Zero


(***************************************************************************)
(* Coordinate arguments.                                                   *)
(*                                                                         *)
(* A trajectory is a walk on the integer lattice: a start and, per frame,  *)
(* one of a few steps.  In a matrix of R rows a trajectory of fewer than R *)
(* frames is padded with nan at its tail, as read_xml builds it: the       *)
(* matrices start as np.ones((frames, particles))*np.nan, frames being the *)
(* longest trajectory, and each particle fills its first rows.             *)
(***************************************************************************)
Starts == {<<1, 2>>}

StepChoices == {<<0, 0>>, <<1, 0>>, <<1, 1>>}

RECURSIVE Walks(_)
Walks(f) ==
    IF f = 1 THEN {<<s>> : s \in Starts}
    ELSE {Append(w, <<w[Len(w)][1] + d[1], w[Len(w)][2] + d[2]>>) :
             w \in Walks(f - 1), d \in StepChoices}

\* read_xml: column of R rows holding the points of w, nan below them
Padded(w, R) ==
    [r \in 1 .. R |-> IF r <= Len(w) THEN <<Q(w[r][1]), Q(w[r][2])>> ELSE <<NaN, NaN>>]

ColumnPool(R) == UNION {{Padded(w, R) : w \in Walks(f)} : f \in 1 .. R}

XOf(col) == [r \in 1 .. Len(col) |-> col[r][1]]

YOf(col) == [r \in 1 .. Len(col) |-> col[r][2]]

\* the matrix whose column k is cols[k] (coord 1: x, coord 2: y), as rows
MatrixOf(cols, R, coord) ==
    [r \in 1 .. R |-> [k \in 1 .. Len(cols) |-> cols[k][r][coord]]]

\* m[:, k]
Col(m, k) == [r \in 1 .. Len(m) |-> m[r][k]]

\* number of observed (non-nan) frames of a column vector
RECURSIVE Observed(_)
Observed(v) ==
    IF Len(v) = 0 \/ IsNaN(v[1]) THEN 0 ELSE 1 + Observed(Tail(v))

Prefix(v, n) == [r \in 1 .. n |-> v[r]]

\* MSD profiles handed to bound and bounds: L lags, non-negative, growing with
\* the lag at a rate that differs from column to column and with the variant v
MsdColumn(L, v, k) == [r \in 1 .. L |-> Q(v * k * r + 1)]

\* the <<L, v>> tried
MsdShapes == {<<2, 1>>, <<3, 2>>}

(***************************************************************************)
(* numpy reductions and element-wise operations.                           *)
(***************************************************************************)
\* np.diff(v)
Diff(v) == [k \in 1 .. (Len(v) - 1) |-> QSub(v[k + 1], v[k])]

\* np.diff(m, axis=0)
DiffAxis0(m) ==
    [r \in 1 .. (Len(m) - 1) |-> [c \in 1 .. Len(m[1]) |-> QSub(m[r + 1][c], m[r][c])]]

\* np.sum(v): nan propagates
RECURSIVE SumQ(_)
SumQ(v) == IF Len(v) = 0 THEN Zero ELSE QAdd(v[1], SumQ(Tail(v)))

\* np.sum(m, axis=0) of a matrix with ncols columns: row after row
RECURSIVE SumAxis0(_, _)
SumAxis0(m, ncols) ==
    IF Len(m) = 0 THEN [c \in 1 .. ncols |-> Zero]
    ELSE LET rest == SumAxis0(Tail(m), ncols)
         IN  [c \in 1 .. ncols |-> QAdd(m[1][c], rest[c])]

\* np.max(v) of a non-empty vector: nan propagates
RECURSIVE MaxQ(_)
MaxQ(v) ==
    IF Len(v) = 1 THEN v[1]
    ELSE LET rest == MaxQ(Tail(v))
         IN  IF IsNaN(v[1]) \/ IsNaN(rest) THEN NaN
             ELSE IF QLe(rest, v[1]) THEN v[1] ELSE rest

\* np.max(m, axis=0) of a matrix with at least one row
MaxAxis0(m) == [c \in 1 .. Len(m[1]) |-> MaxQ(Col(m, c))]

\* np.diff(x)**2 + np.diff(y)**2
StepSq(xv, yv) ==
    LET dx == Diff(xv)
        dy == Diff(yv)
    IN  [k \in 1 .. (Len(xv) - 1) |-> QAdd(QSq(dx[k]), QSq(dy[k]))]

\* np.diff(xs, axis=0)**2 + np.diff(ys, axis=0)**2
StepSqAxis0(xm, ym) ==
    LET dx == DiffAxis0(xm)
        dy == DiffAxis0(ym)
    IN  [r \in 1 .. (Len(xm) - 1) |->
            [c \in 1 .. Len(xm[1]) |-> QAdd(QSq(dx[r][c]), QSq(dy[r][c]))]]

(***************************************************************************)
(* Symbolic square roots: np.sqrt(q) is the bag holding the radicand q     *)
(* (the empty bag for sqrt(0) = 0), a sum of roots is the sum of the bags, *)
(* and a bag holding nan is nan.                                           *)
(***************************************************************************)
Sqrt(q) == IF q = Zero THEN EmptyBag ELSE SetToBag({q})

SurdIsNaN(b) == BagIn(NaN, b)

SurdNaN == SetToBag({NaN})

\* np.sum of a vector of roots
RECURSIVE SurdSum(_)
SurdSum(v) == IF Len(v) = 0 THEN EmptyBag ELSE v[1] (+) SurdSum(Tail(v))

\* np.sum(np.sqrt(m), axis=0)
RECURSIVE SurdSumAxis0(_, _)
SurdSumAxis0(m, ncols) ==
    IF Len(m) = 0 THEN [c \in 1 .. ncols |-> EmptyBag]
    ELSE LET rest == SurdSumAxis0(Tail(m), ncols)
         IN  [c \in 1 .. ncols |-> Sqrt(m[1][c]) (+) rest[c]]

\* a/b of two sums of roots: nan when either is nan or both are zero
SurdDiv(a, b) ==
    IF SurdIsNaN(a) \/ SurdIsNaN(b) \/ (a = EmptyBag /\ b = EmptyBag)
    THEN [num |-> SurdNaN, den |-> SurdNaN]
    ELSE [num |-> a, den |-> b]

\* np.log(n)/np.log(n*n*d/total)
LogRatio(n, d, total) ==
    IF SurdIsNaN(d) \/ SurdIsNaN(total) \/ (d = EmptyBag /\ total = EmptyBag)
    THEN [n |-> n, d |-> SurdNaN, total |-> SurdNaN]
    ELSE [n |-> n, d |-> d, total |-> total]

\* 1 - np.exp(0.2048 - 0.25117*bd), kept as the argument of exp
Trap(bd) == [one_minus_exp_of |-> QSub(Norm(2048, 10000), QMul(Norm(25117, 100000), bd))]


(***************************************************************************)
(* Path-statistics module: the single-trajectory functions.                *)
(***************************************************************************)
efficiency(xv, yv) ==
    LET netD  == QAdd(QSq(QSub(xv[Len(xv)], xv[1])), QSq(QSub(yv[Len(yv)], yv[1])))
        total == SumQ(StepSq(xv, yv))
    IN  QDiv(netD, total)

straight(xv, yv) ==
    LET netD  == Sqrt(QAdd(QSq(QSub(xv[Len(xv)], xv[1])), QSq(QSub(yv[Len(yv)], yv[1]))))
        sq    == StepSq(xv, yv)
        total == SurdSum([k \in 1 .. (Len(xv) - 1) |-> Sqrt(sq[k])])
    IN  SurdDiv(netD, total)

\* defined for at least 2 frames: np.max of an empty array raises ValueError
fractDim(xv, yv) ==
    LET n     == Len(xv) - 1
        sq    == StepSq(xv, yv)
        total == SurdSum([k \in 1 .. (Len(xv) - 1) |-> Sqrt(sq[k])])
        d     == Sqrt(MaxQ(sq))
    IN  LogRatio(n, d, total)

\* defined for at least 2 frames; r**2 of r = sqrt(m)/2 is m/4
bound(xv, yv, Mv) ==
    LET n   == Len(Mv)
        D   == QDiv(QSub(Mv[2], Mv[1]), Q(4))
        rsq == QDiv(MaxQ(StepSq(xv, yv)), Q(4))
        bd  == QDiv(QMul(D, Q(n)), rsq)
    IN  <<bd, Trap(bd)>>

(***************************************************************************)
(* Path-statistics module: the batch functions, reductions along axis 0.   *)
(***************************************************************************)
\* a bug: the last row but one taken for xs[-1, :]
LastRowOffByOne(m) == m[IF Len(m) > 1 THEN Len(m) - 1 ELSE 1]

LastRow(m) == m[Len(m)]

FirstRow(m) == m[1]

efficiencies(xm, ym) ==
    LET cols  == 1 .. Len(xm[1])
        netD  == [c \in cols |->
                    QAdd(QSq(QSub(LastRow(xm)[c], FirstRow(xm)[c])),
                         QSq(QSub(LastRow(ym)[c], FirstRow(ym)[c])))]
        total == SumAxis0(StepSqAxis0(xm, ym), Len(xm[1]))
    IN  [c \in cols |-> QDiv(netD[c], total[c])]

straights(xm, ym) ==
    LET cols  == 1 .. Len(xm[1])
        netD  == [c \in cols |->
                    Sqrt(QAdd(QSq(QSub(LastRow(xm)[c], FirstRow(xm)[c])),
                              QSq(QSub(LastRow(ym)[c], FirstRow(ym)[c]))))]
        total == SurdSumAxis0(StepSqAxis0(xm, ym), Len(xm[1]))
    IN  [c \in cols |-> SurdDiv(netD[c], total[c])]

fractDims(xm, ym) ==
    LET cols  == 1 .. Len(xm[1])
        n     == Len(xm) - 1
        sq    == StepSqAxis0(xm, ym)
        total == SurdSumAxis0(sq, Len(xm[1]))
        mx    == MaxAxis0(sq)
        d     == [c \in cols |-> Sqrt(mx[c])]
    IN  [c \in cols |-> LogRatio(n, d[c], total[c])]

bounds(xm, ym, Mm) ==
    LET cols == 1 .. Len(xm[1])
        n    == Len(Mm)
        Dv   == [c \in cols |-> QDiv(QSub(Mm[2][c], Mm[1][c]), Q(4))]
        mx   == MaxAxis0(StepSqAxis0(xm, ym))
        rsq  == [c \in cols |-> QDiv(mx[c], Q(4))]
        bds  == [c \in cols |-> QDiv(QMul(Dv[c], Q(n)), rsq[c])]
    IN  [c \in cols |-> <<bds[c], Trap(bds[c])>>]

SingleFns == {"efficiency", "straight", "fractDim", "bound"}

BatchFns == {"efficiencies", "straights", "fractDims", "bounds"}

\* a column that holds no nan
IsFull(col) == \A r \in 1 .. Len(col) : ~IsNaN(col[r][1])

InitPathSingle ==
    /\ fn \in SingleFns
    /\ \E R \in 1 .. MaxFrames : \E col \in ColumnPool(R) :
          /\ x = XOf(col)
          /\ y = YOf(col)
    /\ IF fn = "bound"
       THEN \E lv \in MsdShapes : \E k \in 1 .. MaxN :
               M = MsdColumn(lv[1], lv[2], k)
       ELSE M = Unused
    /\ N = 1
    /\ xs = Unused /\ ys = Unused /\ Ms = Unused

InitPathBatch ==
    /\ fn \in BatchFns
    /\ N \in 1 .. MaxN
    /\ \E R \in 1 .. MaxFrames : \E cols \in [1 .. N -> ColumnPool(R)] :
          /\ ~(\A k \in 1 .. N : ~IsFull(cols[k]))
          /\ xs = MatrixOf(cols, R, 1)
          /\ ys = MatrixOf(cols, R, 2)
    /\ IF fn = "bounds"
       THEN \E lv \in MsdShapes :
               Ms = [r \in 1 .. lv[1] |->
                        [k \in 1 .. N |-> MsdColumn(lv[1], lv[2], k)[r]]]
       ELSE Ms = Unused
    /\ x = Unused /\ y = Unused /\ M = Unused

InitPath ==
    /\ pc = "call"
    /\ err = ""
    /\ ret = Unused
    /\ InitPathSingle \/ InitPathBatch
    /\ steps = 0 /\ skips = 0 /\ i = 0 /\ frame = 0
    /\ Ds = Unused /\ alphas = Unused /\ fits = {}
    /\ hull_points = Unused /\ angles = Unused /\ best = Unused /\ Mratio = Unused
    /\ out = Unused

Returns(v) ==
    /\ ret' = v
    /\ pc' = "done"
    /\ UNCHANGED <<fn, err, anomVars, argVars, localVars>>

Raises(e) ==
    /\ err' = e
    /\ pc' = "raised"
    /\ UNCHANGED <<fn, ret, anomVars, argVars, localVars>>

CallEfficiency ==
    /\ pc = "call" /\ fn = "efficiency"
    /\ Returns(efficiency(x, y))

CallStraight ==
    /\ pc = "call" /\ fn = "straight"
    /\ Returns(straight(x, y))

CallFractDim ==
    /\ pc = "call" /\ fn = "fractDim"
    /\ IF Len(x) < 2 THEN Raises("ValueError") ELSE Returns(fractDim(x, y))

CallBound ==
    /\ pc = "call" /\ fn = "bound"
    /\ IF Len(x) < 2 THEN Raises("ValueError") ELSE Returns(bound(x, y, M))

CallEfficiencies ==
    /\ pc = "call" /\ fn = "efficiencies"
    /\ Returns(efficiencies(xs, ys))

CallStraights ==
    /\ pc = "call" /\ fn = "straights"
    /\ Returns(straights(xs, ys))

CallFractDims ==
    /\ pc = "call" /\ fn = "fractDims"
    /\ IF Len(xs) < 2 THEN Raises("ValueError") ELSE Returns(fractDims(xs, ys))

CallBounds ==
    /\ pc = "call" /\ fn = "bounds"
    /\ IF Len(xs) < 2 THEN Raises("ValueError") ELSE Returns(bounds(xs, ys, Ms))

NextPath ==
    \/ CallEfficiency
    \/ CallStraight
    \/ CallFractDim
    \/ CallBound
    \/ CallEfficiencies
    \/ CallStraights
    \/ CallFractDims
    \/ CallBounds

SpecPath == InitPath /\ [][NextPath]_vars

\* what the single-trajectory function gives on column k of the batch arguments
SingleOnColumn(k) ==
    CASE fn = "efficiencies" -> efficiency(Col(xs, k), Col(ys, k))
      [] fn = "straights"    -> straight(Col(xs, k), Col(ys, k))
      [] fn = "fractDims"    -> fractDim(Col(xs, k), Col(ys, k))
      [] fn = "bounds"       -> bound(Col(xs, k), Col(ys, k), Col(Ms, k))

(***************************************************************************)
(* C9: the batch functions agree with the single-trajectory functions:     *)
(* entry k of efficiencies, straights, fractDims, bounds is what           *)
(* efficiency, straight, fractDim, bound return on column k, and the batch *)
(* call raises exactly when the single call on a column raises (fewer than *)
(* 2 frames, the same for every column).                                   *)
(***************************************************************************)
C9_BatchAgreesWithSingle ==
    /\ (fn \in BatchFns /\ pc = "done") =>
          \A k \in 1 .. N : ret[k] = SingleOnColumn(k)
    /\ (fn \in {"fractDims", "bounds"} /\ pc = "raised") =>
          (err = "ValueError" /\ Len(xs) < 2)

C9_Witness ==
    /\ fn = "bounds" /\ pc = "done" /\ N = MaxN
    /\ Len(xs) = MaxFrames
    /\ \E k \in 1 .. N : IsFinite(ret[k][1]) /\ ret[k][1] # Zero
    /\ \E k \in 1 .. N : IsNaN(ret[k][1])
    /\ Col(xs, 1) # Col(xs, 2)


\* every entry of the vector is a finite number
AllFinite(v) == \A k \in 1 .. Len(v) : IsFinite(v[k])

\* each coordinate moves in one direction only
Monotonic(xv, yv) ==
    /\ (\A k \in 1 .. (Len(xv) - 1) : QLe(xv[k], xv[k + 1]))
          \/ (\A k \in 1 .. (Len(xv) - 1) : QLe(xv[k + 1], xv[k]))
    /\ (\A k \in 1 .. (Len(yv) - 1) : QLe(yv[k], yv[k + 1]))
          \/ (\A k \in 1 .. (Len(yv) - 1) : QLe(yv[k + 1], yv[k]))

AllStepsZero(xv, yv) == \A k \in 1 .. (Len(xv) - 1) : StepSq(xv, yv)[k] = Zero

\* at least 2 frames, finite, monotonic, at least one non-zero step
NonDegenerateMonotonic(xv, yv) ==
    /\ Len(xv) >= 2
    /\ AllFinite(xv) /\ AllFinite(yv)
    /\ Monotonic(xv, yv)
    /\ ~AllStepsZero(xv, yv)

\* a straight line traversed in equal non-zero steps
StraightEqualSteps(xv, yv) ==
    /\ Len(xv) >= 2
    /\ AllFinite(xv) /\ AllFinite(yv)
    /\ ~AllStepsZero(xv, yv)
    /\ \A k \in 1 .. (Len(xv) - 1) :
          Diff(xv)[k] = Diff(xv)[1] /\ Diff(yv)[k] = Diff(yv)[1]

\* the square of c*sqrt(r), for a sum of roots that has one radicand r
SurdSquare(b) ==
    LET r == CHOOSE e \in BagToSet(b) : TRUE
    IN  QMul(Q(CopiesIn(r, b) * CopiesIn(r, b)), r)

(***************************************************************************)
(* C4: for a non-degenerate monotonic path efficiency lies in (0, 1], and  *)
(* for a straight line traversed in equal steps efficiency and straight    *)
(* both return exactly 1.                                                  *)
(***************************************************************************)
C4_EfficiencyInUnitInterval ==
    /\ (fn = "efficiency" /\ pc = "done" /\ NonDegenerateMonotonic(x, y)) =>
          (QLt(Zero, ret) /\ QLe(ret, Q(1)))
    /\ (fn = "efficiency" /\ pc = "done" /\ StraightEqualSteps(x, y)) =>
          ret = Q(1)
    /\ (fn = "straight" /\ pc = "done" /\ StraightEqualSteps(x, y)) =>
          SurdSquare(ret.num) = SurdSquare(ret.den)

(***************************************************************************)
(* C5: when every step of a trajectory has zero displacement, efficiency   *)
(* and straight end in an error instead of returning a value.              *)
(***************************************************************************)
C5_DegeneratePathRaises ==
    (fn \in {"efficiency", "straight"} /\ pc \in {"done", "raised"}
        /\ Len(x) >= 2 /\ AllFinite(x) /\ AllFinite(y) /\ AllStepsZero(x, y)) =>
        pc = "raised"

\* what the single-trajectory function gives on the first f frames of column k
SingleOnPrefix(k, f) ==
    CASE fn = "efficiencies" -> efficiency(Prefix(Col(xs, k), f), Prefix(Col(ys, k), f))
      [] fn = "straights"    -> straight(Prefix(Col(xs, k), f), Prefix(Col(ys, k), f))
      [] fn = "fractDims"    -> fractDim(Prefix(Col(xs, k), f), Prefix(Col(ys, k), f))
      [] fn = "bounds"       -> bound(Prefix(Col(xs, k), f), Prefix(Col(ys, k), f), Col(Ms, k))

(***************************************************************************)
(* C8: in a batch where trajectory k is shorter than the row count and its *)
(* tail cells are nan, entry k of efficiencies, straights, fractDims and   *)
(* bounds is the value of the same formula on the observed frames of k.    *)
(***************************************************************************)
C8_SentinelAwareStatistics ==
    (fn \in BatchFns /\ pc = "done") =>
        \A k \in 1 .. N :
            LET f == Observed(Col(xs, k))
            IN  (2 <= f /\ f < Len(xs)) => ret[k] = SingleOnPrefix(k, f)


(***************************************************************************)
(* MSD-consistency module.                                                 *)
(***************************************************************************)
\* the entries of the MSD arguments of msdRatio and msdRatios
MsdValues == {Q(2), Q(3)}

\* np.linspace(1, n, n)
Linspace1(n) == [k \in 1 .. n |-> Q(k)]

\* a bug: the two results of meshgrid taken in the other order
MeshgridFirstSwapped(v) == [r \in 1 .. Len(v) |-> [c \in 1 .. Len(v) |-> v[r]]]

\* first result of np.meshgrid(v, v): the vector laid along each row
MeshgridFirst(v) == [r \in 1 .. Len(v) |-> [c \in 1 .. Len(v) |-> v[c]]]

\* second result of np.meshgrid(v, v): the vector laid along each column
MeshgridSecond(v) == [r \in 1 .. Len(v) |-> [c \in 1 .. Len(v) |-> v[r]]]

\* M2x/M2y - n2x/n2y, then Mratio[n2x > n2y] = 0, of msdRatio
MratioOf(Mv) ==
    LET n   == Len(Mv)
        ns  == Linspace1(n)
        n2y == MeshgridFirst(ns)
        n2x == MeshgridSecond(ns)
        M2y == MeshgridFirst(Mv)
        M2x == MeshgridSecond(Mv)
    IN  [r \in 1 .. n |-> [c \in 1 .. n |->
            IF QLt(n2y[r][c], n2x[r][c]) THEN Zero
            ELSE QSub(QDiv(M2x[r][c], M2y[r][c]), QDiv(n2x[r][c], n2y[r][c]))]]

\* the (n, n, N) array of msdRatios: index [r][c][t]
MratiosOf(Mm) ==
    LET n   == Len(Mm)
        cnt == Len(Mm[1])
        ns  == Linspace1(n)
        n2y == [r \in 1 .. n |-> [c \in 1 .. n |-> [t \in 1 .. cnt |-> MeshgridFirst(ns)[r][c]]]]
        n2x == [r \in 1 .. n |-> [c \in 1 .. n |-> [t \in 1 .. cnt |-> MeshgridSecond(ns)[r][c]]]]
        M2y == [t \in 1 .. cnt |-> MeshgridFirst(Col(Mm, t))]
        M2x == [t \in 1 .. cnt |-> MeshgridSecond(Col(Mm, t))]
    IN  [r \in 1 .. n |-> [c \in 1 .. n |-> [t \in 1 .. cnt |->
            IF QLt(n2y[r][c][t], n2x[r][c][t]) THEN Zero
            ELSE QSub(QDiv(M2x[t][r][c], M2y[t][r][c]),
                      QDiv(n2x[r][c][t], n2y[r][c][t]))]]]

InitMsd ==
    /\ pc = "call"
    /\ err = ""
    /\ ret = Unused
    /\ \/ /\ fn = "msdRatio"
          /\ N = 1
          /\ \E n \in 1 .. MaxLags : M \in [1 .. n -> MsdValues]
          /\ Ms = Unused
       \/ /\ fn = "msdRatios"
          /\ N \in 1 .. MaxN
          /\ \E n \in 1 .. MaxLags : Ms \in [1 .. n -> [1 .. N -> MsdValues]]
          /\ M = Unused
    /\ x = Unused /\ y = Unused /\ xs = Unused /\ ys = Unused
    /\ steps = 0 /\ skips = 0 /\ i = 0 /\ frame = 0
    /\ Ds = Unused /\ alphas = Unused /\ fits = {}
    /\ hull_points = Unused /\ angles = Unused /\ best = Unused /\ Mratio = Unused
    /\ out = Unused

\* msdRatio builds Mratio and then returns the name MRatio, which is not bound
CallMsdRatio ==
    /\ pc = "call" /\ fn = "msdRatio"
    /\ Mratio' = MratioOf(M)
    /\ err' = "NameError"
    /\ pc' = "raised"
    /\ UNCHANGED <<fn, ret, anomVars, argVars, hull_points, angles, best, out>>

CallMsdRatios ==
    /\ pc = "call" /\ fn = "msdRatios"
    /\ Mratio' = MratiosOf(Ms)
    /\ ret' = Mratio'
    /\ pc' = "done"
    /\ UNCHANGED <<fn, err, anomVars, argVars, hull_points, angles, best, out>>

NextMsd ==
    \/ CallMsdRatio
    \/ CallMsdRatios

SpecMsd == InitMsd /\ [][NextMsd]_vars

\* ret is an n x n matrix (of numbers, or of vectors of cnt numbers)
IsSquare(m, n) == DOMAIN m = 1 .. n /\ \A r \in 1 .. n : DOMAIN m[r] = 1 .. n

(***************************************************************************)
(* C3: on an MSD vector or matrix of at least one row with finite entries  *)
(* msdRatio and msdRatios return the lag x lag ratio matrix and raise      *)
(* nothing.                                                                *)
(***************************************************************************)
C3_MsdRatioAlwaysSucceeds ==
    /\ (fn = "msdRatio" /\ pc \in {"done", "raised"} /\ Len(M) >= 1 /\ AllFinite(M)) =>
          (pc = "done" /\ err = "" /\ IsSquare(ret, Len(M)))
    /\ (fn = "msdRatios" /\ pc \in {"done", "raised"} /\ Len(Ms) >= 1) =>
          (pc = "done" /\ err = "" /\ IsSquare(ret, Len(Ms)))

(***************************************************************************)
(* C6: msdRatios returns an n x n x N array R with, for every trajectory t *)
(* and lags i, j: R[i,j,t] = MSD[i,t]/MSD[j,t] - i/j when i <= j, and      *)
(* exactly 0 when i > j; the diagonal is exactly 0 too.                    *)
(***************************************************************************)
C6_TriangularRatioMatrix ==
    (fn = "msdRatios" /\ pc = "done") =>
        /\ IsSquare(ret, Len(Ms))
        /\ \A a \in 1 .. Len(Ms) : \A b \in 1 .. Len(Ms) :
              /\ DOMAIN ret[a][b] = 1 .. N
              /\ \A t \in 1 .. N :
                    /\ a <= b =>
                          ret[a][b][t] = QSub(QDiv(Ms[a][t], Ms[b][t]), QDiv(Q(a), Q(b)))
                    /\ a > b => ret[a][b][t] = Zero
                    /\ a = b => ret[a][b][t] = Zero

C6_Witness ==
    /\ fn = "msdRatios" /\ pc = "done" /\ N = MaxN /\ Len(Ms) = MaxLags
    /\ \E t \in 1 .. N : ret[1][2][t] # Zero /\ ret[2][1][t] = Zero
    /\ Col(Ms, 1) # Col(Ms, 2)


(***************************************************************************)
(* Geometry module: minBoundRect.                                          *)
(*                                                                         *)
(* Points have integer coordinates <<px, py>>.  ConvexHull (scipy, Qhull)  *)
(* raises QhullError when the points do not span the plane (fewer than 3   *)
(* distinct points, or all collinear); otherwise its `vertices` are the    *)
(* extreme points in counterclockwise order, starting at a vertex that the *)
(* interface leaves open: any of them.                                     *)
(*                                                                         *)
(* An angle modulo 90 degrees is kept as the direction <<a, b>> of lowest  *)
(* terms in the first quadrant (a > 0, b >= 0) whose angle it is; cos and  *)
(* sin of it are a/L and b/L with L*L = a*a + b*b.                         *)
(***************************************************************************)
Cross(o, a, b) == (a[1] - o[1]) * (b[2] - o[2]) - (a[2] - o[2]) * (b[1] - o[1])

PointSet(pts) == {pts[k] : k \in 1 .. Len(pts)}

\* the points do not span the plane
Degenerate(S) == \A a \in S : \A b \in S : \A c \in S : Cross(a, b, c) = 0

\* p lies on the segment from a to b
OnSegment(p, a, b) ==
    /\ Cross(a, b, p) = 0
    /\ (p[1] - a[1]) * (p[1] - b[1]) <= 0
    /\ (p[2] - a[2]) * (p[2] - b[2]) <= 0

\* p lies in the (proper) triangle a, b, c
InTriangle(p, a, b, c) ==
    LET d1 == Cross(a, b, p)
        d2 == Cross(b, c, p)
        d3 == Cross(c, a, p)
    IN  /\ Cross(a, b, c) # 0
        /\ ~((d1 < 0 \/ d2 < 0 \/ d3 < 0) /\ (d1 > 0 \/ d2 > 0 \/ d3 > 0))

\* the extreme points of S: those not in the convex hull of the others
HullSet(S) ==
    {p \in S :
        LET T == S \ {p}
        IN  /\ ~\E a \in T : \E b \in T : OnSegment(p, a, b)
            /\ ~\E a \in T : \E b \in T : \E c \in T : InTriangle(p, a, b, c)}

\* the vertex after h[k] around the polygon
Succ(h, k) == h[(k % Len(h)) + 1]

\* points[ConvexHull(points).vertices]: the counterclockwise orders of the hull
HullOrders(S) ==
    LET H == HullSet(S)
        n == Cardinality(H)
    IN  {h \in [1 .. n -> H] :
            /\ \A j \in 1 .. n : \A k \in 1 .. n : (j # k) => (h[j] # h[k])
            /\ \A k \in 1 .. n : \A q \in H \ {h[k], Succ(h, k)} :
                  Cross(h[k], Succ(h, k), q) > 0}

\* every edge of the hull polygon, the one from the last vertex to the first too
ClosedEdges(h) == [k \in 1 .. Len(h) |-> <<Succ(h, k)[1] - h[k][1], Succ(h, k)[2] - h[k][2]>>]

\* edges = hull_points[1:] - hull_points[:-1]
Edges(h) == [k \in 1 .. (Len(h) - 1) |-> <<h[k + 1][1] - h[k][1], h[k + 1][2] - h[k][2]>>]

\* np.abs(np.mod(np.arctan2(dy, dx), pi/2)) of a non-zero edge
RECURSIVE AngleMod90(_)
AngleMod90(e) ==
    IF e[1] > 0 /\ e[2] >= 0
    THEN LET g == GCD(e[1], e[2]) IN <<e[1] \div g, e[2] \div g>>
    ELSE AngleMod90(<<-e[2], e[1]>>)

\* np.unique of the angles of the edges
UniqueAngles(edges) == {AngleMod90(edges[k]) : k \in 1 .. Len(edges)}

\* the order of the angles in [0, 90)
AngleLess(d, e) == d[2] * e[1] < e[2] * d[1]

MinOf(S) == CHOOSE m \in S : \A o \in S : m <= o

MaxOf(S) == CHOOSE m \in S : \A o \in S : o <= m

\* the axis-aligned box of the hull rotated by the angle d, times L:
\* u = a*px + b*py and v = -b*px + a*py over the hull points
BoxAt(h, d) ==
    LET us == {d[1] * h[k][1] + d[2] * h[k][2] : k \in 1 .. Len(h)}
        vs == {d[1] * h[k][2] - d[2] * h[k][1] : k \in 1 .. Len(h)}
    IN  [min_u |-> MinOf(us), max_u |-> MaxOf(us),
         min_v |-> MinOf(vs), max_v |-> MaxOf(vs)]

NormSq(d) == d[1] * d[1] + d[2] * d[2]

\* areas = (max_x - min_x) * (max_y - min_y) at the angle d
AreaAt(h, d) ==
    LET bx == BoxAt(h, d)
    IN  Norm((bx.max_u - bx.min_u) * (bx.max_v - bx.min_v), NormSq(d))

\* np.argmin(areas): the least area, the smallest angle among equals
BestAngle(h, cand) ==
    CHOOSE d \in cand :
        \A e \in cand \ {d} :
            \/ QLt(AreaAt(h, d), AreaAt(h, e))
            \/ (AreaAt(h, d) = AreaAt(h, e) /\ AngleLess(d, e))

\* np.dot([u, v], r) with r = [[cos, sin], [-sin, cos]], u and v being L times
\* the rotated coordinates
Corner(u, v, d) ==
    <<Norm(u * d[1] - v * d[2], NormSq(d)), Norm(u * d[2] + v * d[1], NormSq(d))>>

\* the result of minBoundRect for the hull order h: the four corners rval and
\* the two side lengths ls[:2]
RectOf(h, cand) ==
    LET d  == BestAngle(h, cand)
        bx == BoxAt(h, d)
        rv == << Corner(bx.max_u, bx.min_v, d), Corner(bx.min_u, bx.min_v, d),
                 Corner(bx.min_u, bx.max_v, d), Corner(bx.max_u, bx.max_v, d) >>
        ls == [k \in 1 .. 2 |->
                 Sqrt(QAdd(QSq(QSub(rv[k + 1][1], rv[k][1])),
                           QSq(QSub(rv[k + 1][2], rv[k][2]))))]
    IN  [rval |-> rv, ls |-> ls, angle |-> d, area |-> AreaAt(h, d)]


\* the points <<px, py>> of finite coordinate vectors
PointsOf(xv, yv) == [k \in 1 .. Len(xv) |-> <<xv[k][1], yv[k][1]>>]

GridPoints == (0 .. GridMax) \X (0 .. GridMax)

InitRect ==
    /\ pc = "call"
    /\ err = ""
    /\ ret = Unused
    /\ fn = "minBoundRect"
    /\ \E P \in 1 .. MaxPts : \E pts \in [1 .. P -> GridPoints] :
          /\ x = [k \in 1 .. P |-> Q(pts[k][1])]
          /\ y = [k \in 1 .. P |-> Q(pts[k][2])]
    /\ N = 1
    /\ M = Unused /\ xs = Unused /\ ys = Unused /\ Ms = Unused
    /\ steps = 0 /\ skips = 0 /\ i = 0 /\ frame = 0
    /\ Ds = Unused /\ alphas = Unused /\ fits = {}
    /\ hull_points = Unused /\ angles = Unused /\ best = Unused /\ Mratio = Unused
    /\ out = Unused

\* ConvexHull raises: the points do not span the plane
MinBoundRectRaises ==
    /\ pc = "call" /\ fn = "minBoundRect"
    /\ Degenerate(PointSet(PointsOf(x, y)))
    /\ err' = "QhullError"
    /\ pc' = "raised"
    /\ UNCHANGED <<fn, ret, anomVars, argVars, localVars>>

MinBoundRectReturns ==
    /\ pc = "call" /\ fn = "minBoundRect"
    /\ ~Degenerate(PointSet(PointsOf(x, y)))
    /\ \E h \in HullOrders(PointSet(PointsOf(x, y))) :
          /\ hull_points' = h
          /\ angles' = UniqueAngles(Edges(h))
          /\ best' = RectOf(h, UniqueAngles(Edges(h)))
    /\ ret' = <<best'.rval, best'.ls>>
    /\ pc' = "done"
    /\ UNCHANGED <<fn, err, anomVars, argVars, Mratio, out>>

NextRect ==
    \/ MinBoundRectRaises
    \/ MinBoundRectReturns

SpecRect == InitRect /\ [][NextRect]_vars

(***************************************************************************)
(* C10: the candidate angles of minBoundRect hold the direction, modulo 90 *)
(* degrees, of every edge of the hull polygon, the closing edge from the   *)
(* last vertex to the first included, so that the rectangle returned has   *)
(* the least area among the rectangles aligned with a hull edge.           *)
(***************************************************************************)
C10_EveryHullEdgeIsCandidate ==
    (fn = "minBoundRect" /\ pc = "done") =>
        \A k \in 1 .. Len(hull_points) :
            LET d == AngleMod90(ClosedEdges(hull_points)[k])
            IN  /\ d \in angles
                /\ QLe(best.area, AreaAt(hull_points, d))


(***************************************************************************)
(* aspectRatio, asym and the looping batch drivers aspectRatios, asyms and *)
(* anomModelN.                                                             *)
(***************************************************************************)
DefaultFrame == 100

\* the radicand of a single root
RadOf(b) == IF b = EmptyBag THEN Zero ELSE CHOOSE e \in BagToSet(b) : TRUE

\* np.max(ls) and np.min(ls) of two roots
SurdMax(a, b) == IF QLe(RadOf(a), RadOf(b)) THEN b ELSE a

SurdMin(a, b) == IF QLe(RadOf(a), RadOf(b)) THEN a ELSE b

\* np.max(ls)/np.min(ls), 1 - np.min(ls)/np.max(ls) for the rectangle rect
aspectRatio(rect) ==
    LET hi == SurdMax(rect.ls[1], rect.ls[2])
        lo == SurdMin(rect.ls[1], rect.ls[2])
    IN  <<SurdDiv(hi, lo), [one_minus |-> SurdDiv(lo, hi)]>>

HasNaN(v) == \E k \in 1 .. Len(v) : IsNaN(v[k])

\* minBoundRect raises on the column: nan among the points (ValueError of
\* ConvexHull), or points that do not span the plane (QhullError)
AspectRatioError(xv, yv) ==
    IF HasNaN(xv) \/ HasNaN(yv) THEN "ValueError"
    ELSE IF Degenerate(PointSet(PointsOf(xv, yv))) THEN "QhullError"
    ELSE ""

\* the values aspectRatio can return on a column it does not raise on
AspectRatioValues(xv, yv) ==
    {aspectRatio(RectOf(h, UniqueAngles(Edges(h)))) :
        h \in HullOrders(PointSet(PointsOf(xv, yv)))}

\* asym raises on the column: np.linalg.eig refuses a covariance matrix that is
\* not finite (LinAlgError), which np.cov gives for nan and for a single frame
AsymError(xv, yv) ==
    IF HasNaN(xv) \/ HasNaN(yv) \/ Len(xv) < 2 THEN "LinAlgError" ELSE ""

\* what asym returns, its eigen-decomposition kept as a term
asym(xv, yv) ==
    [a123 |-> <<<<"a1", xv, yv>>, <<"a2", xv, yv>>, <<"a3", xv, yv>>>>,
     K    |-> <<"K", xv, yv>>]

\* the error of the single-trajectory computation on column k, "" when none
ColumnError(k) ==
    CASE fn = "aspectRatios" -> AspectRatioError(Col(xs, k), Col(ys, k))
      [] fn = "asyms"        -> AsymError(Col(xs, k), Col(ys, k))

InitBatchCoords ==
    /\ fn \in {"aspectRatios", "asyms"}
    /\ N \in 1 .. MaxN
    /\ \E R \in 1 .. MaxFrames : \E cols \in [1 .. N -> ColumnPool(R)] :
          /\ ~(\A k \in 1 .. N : ~IsFull(cols[k]))
          /\ xs = MatrixOf(cols, R, 1)
          /\ ys = MatrixOf(cols, R, 2)
    /\ out = IF fn = "aspectRatios" THEN <<Zeros(N), Zeros(N)>>
             ELSE <<Zeros(N), Zeros(N), Zeros(N), Zeros(N)>>
    /\ steps = 0 /\ frame = 0
    /\ Ds = Unused /\ alphas = Unused

InitAnomModelN ==
    /\ fn = "anomModelN"
    /\ N \in 1 .. MaxN
    /\ steps \in 2 .. MaxK
    /\ frame \in (1 .. steps) \cup {DefaultFrame}
    /\ Ds = Zeros(N)
    /\ alphas = Zeros(N)
    /\ out = Unused
    /\ xs = Unused /\ ys = Unused

InitBatch ==
    /\ pc = "loop"
    /\ err = ""
    /\ ret = Unused
    /\ i = 0
    /\ InitBatchCoords \/ InitAnomModelN
    /\ skips = 0 /\ fits = {}
    /\ x = Unused /\ y = Unused /\ M = Unused /\ Ms = Unused
    /\ hull_points = Unused /\ angles = Unused /\ best = Unused /\ Mratio = Unused

\* ars[i], elongs[i] = aspectRatio(x[:, i], y[:, i])
AspectRatiosColumn ==
    /\ fn = "aspectRatios" /\ pc = "loop"
    /\ i < N
    /\ ColumnError(i + 1) = ""
    /\ \E v \in AspectRatioValues(Col(xs, i + 1), Col(ys, i + 1)) :
          out' = <<[out[1] EXCEPT ![i] = v[1]], [out[2] EXCEPT ![i] = v[2]]>>
    /\ i' = i + 1
    /\ UNCHANGED <<fn, pc, err, ret, steps, N, skips, frame, Ds, alphas, fits, argVars,
                   hull_points, angles, best, Mratio>>

\* a1[i], a2[i], a3[i], Ks[i] from asym(x[:, i], y[:, i])
AsymsColumn ==
    /\ fn = "asyms" /\ pc = "loop"
    /\ i < N
    /\ ColumnError(i + 1) = ""
    /\ LET r == asym(Col(xs, i + 1), Col(ys, i + 1))
       IN  out' = <<[out[1] EXCEPT ![i] = r.a123[1]], [out[2] EXCEPT ![i] = r.a123[2]],
                    [out[3] EXCEPT ![i] = r.a123[3]], [out[4] EXCEPT ![i] = r.K]>>
    /\ i' = i + 1
    /\ UNCHANGED <<fn, pc, err, ret, steps, N, skips, frame, Ds, alphas, fits, argVars,
                   hull_points, angles, best, Mratio>>

\* the single-trajectory call raises: nothing in the loop catches it
BatchColumnRaises ==
    /\ fn \in {"aspectRatios", "asyms"} /\ pc = "loop"
    /\ i < N
    /\ ColumnError(i + 1) # ""
    /\ err' = ColumnError(i + 1)
    /\ pc' = "raised"
    /\ UNCHANGED <<fn, ret, anomVars, argVars, localVars>>

BatchReturn ==
    /\ fn \in {"aspectRatios", "asyms"} /\ pc = "loop"
    /\ ~(i < N)
    /\ ret' = out
    /\ pc' = "done"
    /\ UNCHANGED <<fn, err, anomVars, argVars, localVars>>

\* the points n[:frame], MSD[:frame, i] curve_fit is given
FixedWindow == IF frame < steps THEN frame ELSE steps

AnomModelNFit ==
    /\ fn = "anomModelN" /\ pc = "loop"
    /\ i < N
    /\ fits' = fits \cup {<<i, FixedWindow>>}
    /\ Ds' = [Ds EXCEPT ![i] = FitD(i, FixedWindow)]
    /\ alphas' = [alphas EXCEPT ![i] = FitAlpha(i, FixedWindow)]
    /\ i' = i + 1
    /\ UNCHANGED <<fn, pc, err, ret, steps, N, skips, frame, argVars, localVars>>

AnomModelNFitRaises ==
    /\ fn = "anomModelN" /\ pc = "loop"
    /\ i < N
    /\ fits' = fits \cup {<<i, FixedWindow>>}
    /\ err' = "RuntimeError"
    /\ pc' = "raised"
    /\ UNCHANGED <<fn, ret, steps, N, skips, i, frame, Ds, alphas, argVars, localVars>>

AnomModelNReturn ==
    /\ fn = "anomModelN" /\ pc = "loop"
    /\ ~(i < N)
    /\ ret' = <<Ds, alphas>>
    /\ pc' = "done"
    /\ UNCHANGED <<fn, err, anomVars, argVars, localVars>>

NextBatch ==
    \/ AspectRatiosColumn
    \/ AsymsColumn
    \/ BatchColumnRaises
    \/ BatchReturn
    \/ AnomModelNFit
    \/ AnomModelNFitRaises
    \/ AnomModelNReturn

SpecBatch == InitBatch /\ [][NextBatch]_vars

\* the mark of an entry whose column failed, as the batch contract describes it
FailedMark(k) == <<"failed", k>>

(***************************************************************************)
(* C2: a looping batch driver called on N columns always returns: when the *)
(* single-trajectory computation fails for column k, entry k is marked     *)
(* failed against k and every other entry is what the single-trajectory    *)
(* computation gives; the call never fails as a whole.                     *)
(***************************************************************************)
C2_FailureIsolation ==
    /\ (fn \in {"aspectRatios", "asyms"} /\ \E k \in 1 .. N : ColumnError(k) = "") =>
          pc # "raised"
    /\ (fn = "anomModelN" /\ i >= 1) => pc # "raised"
    /\ (fn = "aspectRatios" /\ pc = "done") =>
          \A k \in 1 .. N :
              IF ColumnError(k) # "" THEN ret[1][k - 1] = FailedMark(k)
              ELSE <<ret[1][k - 1], ret[2][k - 1]>>
                       \in AspectRatioValues(Col(xs, k), Col(ys, k))
    /\ (fn = "asyms" /\ pc = "done") =>
          \A k \in 1 .. N :
              IF ColumnError(k) # "" THEN ret[1][k - 1] = FailedMark(k)
              ELSE ret[4][k - 1] = asym(Col(xs, k), Col(ys, k)).K

=============================================================================
